---- MODULE Spec2Model ----
(***************************************************************************)
(* Model of the browser-side graph scripts of module-structure:            *)
(*   frontend/subgraph.js   get_node, subgraph, format_as_tree, PRESETS    *)
(*   frontend/index.html    the control panel's preset handler             *)
(* A graph document is {nodes: [{id, type}], edges: [{source, target,      *)
(* type}]}.  JavaScript arrays are sequences, `undefined` is a value of    *)
(* its own, and a call ends in a completion: normal with a value, or a     *)
(* throw with the kind of the error thrown.                                *)
(***************************************************************************)
EXTENDS Naturals, Sequences, FiniteSets, TLC

\* ---------------------------------------------------------------- bounds
\* longest node / edge array of a graph document loaded for filtering
MaxNodes == 2
MaxEdges == 2
\* longest node / edge array of a graph document loaded for the tree walk
TreeMaxNodes == 3
TreeMaxEdges == 2
\* depth of nested calls the engine's call stack holds before it throws
\* RangeError ("Maximum call stack size exceeded")
StackLimit == 4
\* longest node / edge array of a graph document of the step-by-step runs
HeapMaxNodes == 2
HeapMaxEdges == 1
\* number of calls one call context makes in a row
MaxCalls == 2
\* longest edge array of a document of the step-by-step tree walks
WalkMaxEdges == 3
\* most options selected at a time in each custom multiselect
MaxSelected == 1

\* ------------------------------------------------------------ input data
Ids == {"A", "B"}
TreeIds == {"A", "B", "C"}
NodeTypes == {"FolderNode", "FileNode"}
EdgeTypes == {"DirectoryEdge", "ImportEdge"}

SeqsUpTo(S, n) == UNION {[1..k -> S] : k \in 0..n}

NodeRecords(ids, types) == [id : ids, type : types]
EdgeRecords(ids, types) == [source : ids, target : ids, type : types]

Graphs(ids, ntypes, etypes, maxn, maxe) ==
  [nodes : SeqsUpTo(NodeRecords(ids, ntypes), maxn),
   edges : SeqsUpTo(EdgeRecords(ids, etypes), maxe)]

\* the type lists a caller passes: arrays of labels
NodeTypeLists == {<<>>, <<"FolderNode">>, <<"FileNode">>, <<"FileNode", "FolderNode">>}
EdgeTypeLists == {<<>>, <<"DirectoryEdge">>, <<"ImportEdge">>, <<"DirectoryEdge", "ImportEdge">>}

\* ------------------------------------------------------- JavaScript values
undefined == [undefined |-> TRUE]

Normal(v) == [type |-> "normal", value |-> v]
Throw(kind) == [type |-> "throw", value |-> kind]

\* the truthiness of arr.indexOf(x): false only when x is the first element
includes_indexOf_truthy(arr, x) == ~(Len(arr) >= 1 /\ arr[1] = x)

\* Array.prototype.includes
includes(arr, x) == \E i \in DOMAIN arr : arr[i] = x

\* Array.prototype.find: the first element satisfying the test, or undefined
find_by_id(nodes, id) ==
  LET hits == {i \in DOMAIN nodes : nodes[i].id = id}
  IN IF hits = {} THEN undefined
     ELSE nodes[CHOOSE i \in hits : \A j \in hits : i <= j]

\* ------------------------------------------------------------ subgraph.js
get_node(id, nodes) == find_by_id(nodes, id)

\* the node loop started at index 1: the first node of g["nodes"] is skipped
gather_nodes_from_second(g, node_types) ==
  SelectSeq(IF g.nodes = <<>> THEN <<>> ELSE Tail(g.nodes),
            LAMBDA n : includes(node_types, n.type))

\* lines 9-14: the allowed nodes, pushed in the order of g["nodes"]
gather_nodes(g, node_types) ==
  SelectSeq(g.nodes, LAMBDA n : includes(node_types, n.type))

\* the test with the target left unchecked: only s_node and the type count
edge_allowed_source_only(e, sub_nodes, edge_types) ==
  LET s_node == get_node(e.source, sub_nodes)
  IN s_node # undefined /\ includes(edge_types, e.type)

\* lines 19-24: the test of one edge against the gathered nodes
edge_allowed(e, sub_nodes, edge_types) ==
  LET s_node == get_node(e.source, sub_nodes)
      t_node == get_node(e.target, sub_nodes)
  IN s_node # undefined /\ t_node # undefined /\ includes(edge_types, e.type)

\* lines 17-27: the allowed edges, pushed in the order of g["edges"]
gather_edges(g, sub_nodes, edge_types) ==
  SelectSeq(g.edges, LAMBDA e : edge_allowed(e, sub_nodes, edge_types))

\* subgraph with the endpoints looked up in g["nodes"], not in sub_nodes
subgraph_lookup_in_g(g, node_types, edge_types) ==
  LET sub_nodes == gather_nodes(g, node_types)
      sub_edges == gather_edges(g, g.nodes, edge_types)
  IN [nodes |-> sub_nodes, edges |-> sub_edges]

\* subgraph that skips an edge whose source is its target, as format_as_tree does
subgraph_no_self_loop(g, node_types, edge_types) ==
  LET sub_nodes == gather_nodes(g, node_types)
      sub_edges == SelectSeq(g.edges, LAMBDA e :
                     e.source # e.target /\ edge_allowed(e, sub_nodes, edge_types))
  IN [nodes |-> sub_nodes, edges |-> sub_edges]

subgraph(g, node_types, edge_types) ==
  LET sub_nodes == gather_nodes(g, node_types)
      sub_edges == gather_edges(g, sub_nodes, edge_types)
  IN [nodes |-> sub_nodes, edges |-> sub_edges]

RECURSIVE format_as_tree(_, _, _)
RECURSIVE tree_children(_, _, _, _, _)
RECURSIVE tree_children_incoming(_, _, _, _, _)
RECURSIVE tree_children_self_loops(_, _, _, _, _)

\* the loop without the test e.target !== node.id: a self-loop is followed
tree_children_self_loops(node, directory_data, i, children, depth) ==
  IF i > Len(directory_data.edges) THEN Normal(children)
  ELSE LET e == directory_data.edges[i]
       IN IF e.source = node.id
          THEN LET t_node == get_node(e.target, directory_data.nodes)
                   sub == format_as_tree(t_node, directory_data, depth + 1)
               IN IF sub.type = "throw" THEN sub
                  ELSE tree_children_self_loops(node, directory_data, i + 1,
                                                Append(children, sub.value), depth)
          ELSE tree_children_self_loops(node, directory_data, i + 1, children, depth)

\* the loop with source and target swapped: it walks the incoming edges
tree_children_incoming(node, directory_data, i, children, depth) ==
  IF i > Len(directory_data.edges) THEN Normal(children)
  ELSE LET e == directory_data.edges[i]
       IN IF e.target = node.id /\ e.source # node.id
          THEN LET t_node == get_node(e.source, directory_data.nodes)
                   sub == format_as_tree(t_node, directory_data, depth + 1)
               IN IF sub.type = "throw" THEN sub
                  ELSE tree_children_incoming(node, directory_data, i + 1,
                                              Append(children, sub.value), depth)
          ELSE tree_children_incoming(node, directory_data, i + 1, children, depth)

\* lines 35-40: the loop over directory_data["edges"] from index i on, with
\* the children pushed so far; a throw of a nested call ends the loop
tree_children(node, directory_data, i, children, depth) ==
  IF i > Len(directory_data.edges) THEN Normal(children)
  ELSE LET e == directory_data.edges[i]
       IN IF e.source = node.id /\ e.target # node.id
          THEN LET t_node == get_node(e.target, directory_data.nodes)
                   sub == format_as_tree(t_node, directory_data, depth + 1)
               IN IF sub.type = "throw" THEN sub
                  ELSE tree_children(node, directory_data, i + 1,
                                     Append(children, sub.value), depth)
          ELSE tree_children(node, directory_data, i + 1, children, depth)

\* lines 33-43, as the call at nesting depth `depth`.  Reading
\* directory_data["edges"] of an argument that was not passed throws
\* TypeError at line 35; reading node.id of undefined throws TypeError (in
\* the loop, or at line 42 when there is no edge); a call the stack cannot
\* hold throws RangeError.
format_as_tree(node, directory_data, depth) ==
  IF depth > StackLimit THEN Throw("RangeError")
  ELSE IF directory_data = undefined THEN Throw("TypeError")
  ELSE IF node = undefined THEN Throw("TypeError")
  ELSE LET c == tree_children(node, directory_data, 1, <<>>, depth)
       IN IF c.type = "throw" THEN c
          ELSE Normal([name |-> node.id, children |-> c.value])

\* ------------------------------------------- the calls that feed the renderer
null == [null |-> TRUE]

\* the error object of a failed load
LoadError == [name |-> "Error"]

\* the root of the tree view
SnorkelRoot == [id |-> "snorkel", type |-> "FolderNode"]

\* before any call: "data" is as the notebook module defined it
InitialPage == [data |-> undefined, call |-> undefined, completion |-> undefined]

\* what a call does after its format_as_tree call completed with t:
\* main.redefine("data", graph), unless t is a throw
redefine_data(p, t) ==
  IF t.type = "throw" THEN [p EXCEPT !.completion = t]
  ELSE [p EXCEPT !.data = t.value, !.completion = Normal(undefined)]

\* index.html lines 58-64: the callback d3.json calls with the outcome of the load
d3_json_callback(p, err, graph) ==
  LET q == [p EXCEPT !.call = [fn |-> "d3.json callback", err |-> err]]
  IN IF err # null THEN [q EXCEPT !.completion = Throw(err.name)]
     ELSE LET filtered_graph == subgraph(graph, <<"FileNode", "FolderNode">>, <<"DirectoryEdge">>)
          IN redefine_data(q, format_as_tree(SnorkelRoot, filtered_graph, 1))

\* part_004 lines 45-49.  Line 47 calls format_as_tree with one argument, an
\* object literal holding id, type and (shorthand property) graph, so
\* directory_data is undefined in the call.
changeGraph(p, graph, nodes, edges) ==
  LET q == [p EXCEPT !.call = [fn |-> "changeGraph", nodes |-> nodes, edges |-> edges]]
      filtered_graph == subgraph(graph, nodes, edges)
      node == [id |-> "snorkel", type |-> "FolderNode", graph |-> filtered_graph]
  IN redefine_data(q, format_as_tree(node, undefined, 1))

\* ------------------------------------------------- subgraph.js: PRESETS
\* name :> [node types, edge types, layout, show 0 degree nodes, description]
PRESETS ==
  ("file directory" :>
     << <<"FolderNode", "FileNode">>, <<"DirectoryEdge">>, "tree", TRUE,
        "The file organization of the repo. Nodes are either folders or Python files. A directed edge from **u** to **v** represents '**u** is the parent folder of **v**.'" >>)
  @@ ("class inheritance" :>
     << <<"ClassNode">>, <<"InheritanceNode">>, "force directed", FALSE,
        "The classes that inherit from another class defined within the repo. Nodes are Python classes. A directed edge from **u** to **v** represents '**u** is a parent class for **v**.'" >>)
  @@ ("function dependency" :>
     << <<"FileNode", "ClassNode", "FunctionNode">>, <<"Function Call">>, "circle", FALSE,
        "The function calls within the repo. Nodes represent a Python file, function, or class. A directed edge from **u** to **v**  represents '**u** is called by **v**.'" >>)
  @@ ("import dependency" :>
     << <<"FileNode", "FolderNode">>, <<"ImportEdge">>, "concentric", FALSE,
        "The imports of each Python file. Nodes are Python files or folders (as Python packages). A directed edge from **u** to **v**  represents '**u** is imported by **v**.'" >>)
  @@ ("broad definitions" :>
     << <<"File", "Class", "Function">>, <<"Definition">>, "cose", FALSE,
        "The organization of Python class and function definitions. Nodes are files, functions, or classes. A directed edge from **u** to **v**  represents '**u** defines **v**.'" >>)
  @@ ("granular definitions" :>
     << <<"File", "Class", "Function", "Variable", "Lambda", "If", "For", "While", "Try">>,
        <<"Definition">>, "cose", FALSE,
        "The variables, lambda expressions, if-statements, for loops, while loops, and try-statements defined within Python files.A directed edge from **u** to **v**  represents '**u** defines **v**.'" >>)
  @@ ("all" :>
     << <<"File", "Folder", "Class", "Function">>,
        <<"Inheritance", "Directory", "Function Call", "Import", "Definition">>,
        "concentric", FALSE,
        "Every type of node and edge displayed at once." >>)
  @@ ("custom" :>
     << <<>>, <<>>, "concentric", TRUE, "Choose the Node and Edge types to include. " >>)

\* --------------------------------------------- index.html: control panel
\* the option values of the four selects
PresetOptions ==
  {"file directory", "class inheritance", "function dependency", "import dependency",
   "broad definitions", "granular definitions", "all", "custom"}
LayoutOptions == {"force directed", "tree"}
NodeOptions ==
  {"FileNode", "FolderNode", "ClassNode", "FuncNode", "VarNode", "LambdaNode",
   "IfNode", "ForNode", "WhileNode", "TryNode"}
EdgeOptions ==
  {"DirectoryEdge", "ImportEdge", "FunctionCallEdge", "InheritanceEdge",
   "DefinitionEdge", "VariableEdge", "ControlFlowEdge"}

\* a name that is no key of PRESETS, as a scripted change event can carry
UnknownPresets == {"not-a-preset"}

\* the value a select shows after `select.value = v`: v when an option has
\* that value, else no option is selected and the value reads ""
select_value(options, v) == IF v \in options THEN v ELSE ""

\* the panel as the markup sets it up
InitialPanel ==
  [preset |-> "file directory",
   custom_hidden |-> TRUE,
   layout |-> "tree",
   show_degree |-> FALSE,
   description |-> "...",
   node_options |-> {},
   edge_options |-> {},
   completion |-> undefined]

\* lines 122-140, the change handler of presets-dropdown, run for an event
\* whose target has this value.  PRESETS[value] of a missing key is
\* undefined, and destructuring undefined throws TypeError at line 131.
preset_change(p, value) ==
  LET shown == [p EXCEPT !.preset = value, !.custom_hidden = (value # "custom")]
  IN IF value \notin DOMAIN PRESETS
     THEN [shown EXCEPT !.completion = Throw("TypeError")]
     ELSE [shown EXCEPT !.layout = select_value(LayoutOptions, PRESETS[value][3]),
                        !.show_degree = PRESETS[value][4],
                        !.description = PRESETS[value][5],
                        !.completion = Normal(undefined)]

\* ------------------------------------------------------------------ state
VARIABLES
  graph,        \* the graph document the page loaded
  node_types,   \* arguments of the last subgraph call
  edge_types,
  filtered,     \* subgraph(graph, node_types, edge_types)
  refiltered,   \* subgraph(filtered, node_types, edge_types)
  root,         \* argument of the last format_as_tree call
  tree,         \* its completion
  heap,         \* the objects allocated so far; an object's address is its index
  window,       \* the global object: sub_nodes, sub_edges, s_node, t_node
  stack,        \* per call context, the frames of its running call
  call,         \* per call context, its last top-level call
  completion,   \* per call context, the completion of that call
  calls,        \* per call context, the number of calls it has started
  quota,        \* per call context, the number of calls it may start
  panel,        \* the control panel: its controls and the last handler's completion
  page          \* the renderer's "data" and the last call that feeds it

fvars == <<node_types, edge_types, filtered, refiltered, root, tree>>
hvars == <<heap, window, stack, call, completion, calls, quota>>
vars == <<graph, fvars, hvars, panel, page>>

Ctx == {1, 2}

NoCall ==
  /\ node_types = undefined /\ edge_types = undefined
  /\ filtered = undefined /\ refiltered = undefined
  /\ root = undefined /\ tree = undefined

\* no step-by-step run: nothing allocated, no call context may start a call
NoRun ==
  /\ heap = <<>>
  /\ window = [sub_nodes |-> 0, sub_edges |-> 0, s_node |-> 0, t_node |-> 0]
  /\ stack = [c \in Ctx |-> <<>>]
  /\ call = [c \in Ctx |-> undefined]
  /\ completion = [c \in Ctx |-> undefined]
  /\ calls = [c \in Ctx |-> 0]
  /\ quota = [c \in Ctx |-> 0]

\* a document loaded for filtering
Init ==
  /\ graph \in Graphs(Ids, NodeTypes, EdgeTypes, MaxNodes, MaxEdges)
  /\ NoCall
  /\ NoRun
  /\ panel = InitialPanel
  /\ page = InitialPage

\* a document loaded for the tree walk
InitTree ==
  /\ graph \in Graphs(TreeIds, {"FolderNode"}, {"DirectoryEdge"}, TreeMaxNodes, TreeMaxEdges)
  /\ NoCall
  /\ NoRun
  /\ panel = InitialPanel
  /\ page = InitialPage

\* filtered = subgraph(graph, nt, et)
CallSubgraph ==
  \E nt \in NodeTypeLists, et \in EdgeTypeLists :
    /\ filtered = undefined
    /\ node_types' = nt
    /\ edge_types' = et
    /\ filtered' = subgraph(graph, nt, et)
    /\ refiltered' = undefined
    /\ UNCHANGED <<graph, root, tree, hvars, panel, page>>

\* refiltered = subgraph(filtered, node_types, edge_types)
CallSubgraphAgain ==
  /\ filtered # undefined
  /\ refiltered = undefined
  /\ refiltered' = subgraph(filtered, node_types, edge_types)
  /\ UNCHANGED <<graph, node_types, edge_types, filtered, root, tree, hvars, panel, page>>

\* tree = format_as_tree({id: r, type: "FolderNode"}, graph)
CallFormatAsTree ==
  \E r \in TreeIds :
    /\ root = undefined
    /\ root' = [id |-> r, type |-> "FolderNode"]
    /\ tree' = format_as_tree(root', graph, 1)
    /\ UNCHANGED <<graph, node_types, edge_types, filtered, refiltered, hvars, panel, page>>

Next == CallSubgraph \/ CallSubgraphAgain

NextTree == CallFormatAsTree

Spec == Init /\ [][Next]_vars

SpecTree == InitTree /\ [][NextTree]_vars

\* ------------------------------------------------ the calls, step by step
(***************************************************************************)
(* Objects live in the heap and are passed by reference; address 0 stands  *)
(* for undefined.  subgraph.js declares sub_nodes, sub_edges, s_node and   *)
(* t_node with no let/const: loaded as a classic script they are           *)
(* properties of the global object, shared by every call.  children (let)  *)
(* and the parameters are local to a call's frame.                         *)
(***************************************************************************)
NodeObject(n) == [kind |-> "node", id |-> n.id, type |-> n.type]
EdgeObject(e) == [kind |-> "edge", source |-> e.source, target |-> e.target, type |-> e.type]
ArrayObject(elems) == [kind |-> "array", elems |-> elems]

\* address of the loaded graph document
G == 1

\* the loaded document g as heap objects: the document, its two arrays,
\* then its node records and its edge records
LoadGraph(g) ==
  LET n == Len(g.nodes)
      m == Len(g.edges)
  IN <<[kind |-> "graph", nodes |-> 2, edges |-> 3],
       ArrayObject([i \in 1..n |-> 3 + i]),
       ArrayObject([j \in 1..m |-> 3 + n + j])>>
     \o [i \in 1..n |-> NodeObject(g.nodes[i])]
     \o [j \in 1..m |-> EdgeObject(g.edges[j])]

\* get_node over references: the address of the first element of the array
\* at `nodes` whose id is `id`, or undefined
get_node_ref(h, id, nodes) ==
  LET elems == h[nodes].elems
      hits == {i \in DOMAIN elems : h[elems[i]].id = id}
  IN IF hits = {} THEN 0
     ELSE elems[CHOOSE i \in hits : \A j \in hits : i <= j]

\* arr.unshift(x): the element goes to the front
push_front(h, arr, x) == [h EXCEPT ![arr] = ArrayObject(<<x>> \o @.elems)]

\* arr.push(x)
push(h, arr, x) == [h EXCEPT ![arr] = ArrayObject(Append(@.elems, x))]

\* sub_nodes = g["nodes"]: the input's own array taken as the result array
sub_nodes_aliased(h, g) == [heap |-> h, ref |-> h[g].nodes]

\* line 9, sub_nodes = []: a new, empty array
sub_nodes_new(h, g) == [heap |-> Append(h, ArrayObject(<<>>)), ref |-> Len(h) + 1]

Top(c) == stack[c][Len(stack[c])]
SetTop(c, f) == [stack EXCEPT ![c] = [@ EXCEPT ![Len(@)] = f]]
Pop(c) == [stack EXCEPT ![c] = SubSeq(@, 1, Len(@) - 1)]
Running(c, fn, pc) == stack[c] # <<>> /\ Top(c).fn = fn /\ Top(c).pc = pc

\* the arguments the step-by-step runs draw from
RunNodeTypeLists == {<<"FolderNode">>, <<"FileNode", "FolderNode">>}
RunEdgeTypeLists == {<<"DirectoryEdge">>}

\* subgraph(graph, nt, et) is called
StartSubgraph(c) ==
  \E nt \in RunNodeTypeLists, et \in RunEdgeTypeLists :
    /\ stack[c] = <<>>
    /\ calls[c] < quota[c]
    /\ calls' = [calls EXCEPT ![c] = @ + 1]
    /\ call' = [call EXCEPT ![c] = [fn |-> "subgraph", node_types |-> nt, edge_types |-> et]]
    /\ completion' = [completion EXCEPT ![c] = undefined]
    /\ stack' = [stack EXCEPT ![c] =
                   <<[fn |-> "subgraph", pc |-> "line9", g |-> G,
                      node_types |-> nt, edge_types |-> et, i |-> 0]>>]
    /\ UNCHANGED <<graph, fvars, heap, window, quota, panel, page>>

\* line 9: sub_nodes = []
SubNodesInit(c) ==
  /\ Running(c, "subgraph", "line9")
  /\ LET new == sub_nodes_new(heap, Top(c).g)
     IN /\ heap' = new.heap
        /\ window' = [window EXCEPT !.sub_nodes = new.ref]
  /\ stack' = SetTop(c, [Top(c) EXCEPT !.pc = "line10", !.i = 1])
  /\ UNCHANGED <<graph, fvars, call, completion, calls, quota, panel, page>>

\* lines 10-14: one turn of the loop over g["nodes"], or its end
SubNodesLoop(c) ==
  /\ Running(c, "subgraph", "line10")
  /\ LET f == Top(c)
         nodes == heap[heap[f.g].nodes].elems
     IN IF f.i > Len(nodes)
        THEN /\ stack' = SetTop(c, [f EXCEPT !.pc = "line17"])
             /\ heap' = heap
        ELSE /\ heap' = IF includes(f.node_types, heap[nodes[f.i]].type)
                        THEN push(heap, window.sub_nodes, nodes[f.i])
                        ELSE heap
             /\ stack' = SetTop(c, [f EXCEPT !.i = @ + 1])
  /\ UNCHANGED <<graph, fvars, window, call, completion, calls, quota, panel, page>>

\* line 17: sub_edges = []
SubEdgesInit(c) ==
  /\ Running(c, "subgraph", "line17")
  /\ heap' = Append(heap, ArrayObject(<<>>))
  /\ window' = [window EXCEPT !.sub_edges = Len(heap) + 1]
  /\ stack' = SetTop(c, [Top(c) EXCEPT !.pc = "line19", !.i = 1])
  /\ UNCHANGED <<graph, fvars, call, completion, calls, quota, panel, page>>

\* lines 18-19: the next edge and s_node = get_node(e["source"], sub_nodes),
\* or the end of the loop
SubEdgeSource(c) ==
  /\ Running(c, "subgraph", "line19")
  /\ LET f == Top(c)
         edges == heap[heap[f.g].edges].elems
     IN IF f.i > Len(edges)
        THEN /\ stack' = SetTop(c, [f EXCEPT !.pc = "line29"])
             /\ window' = window
        ELSE /\ window' = [window EXCEPT !.s_node =
                             get_node_ref(heap, heap[edges[f.i]].source, window.sub_nodes)]
             /\ stack' = SetTop(c, [f EXCEPT !.pc = "line20"])
  /\ UNCHANGED <<graph, fvars, heap, call, completion, calls, quota, panel, page>>

\* line 20: t_node = get_node(e["target"], sub_nodes)
SubEdgeTarget(c) ==
  /\ Running(c, "subgraph", "line20")
  /\ LET f == Top(c)
         e == heap[heap[f.g].edges].elems[f.i]
     IN window' = [window EXCEPT !.t_node =
                     get_node_ref(heap, heap[e].target, window.sub_nodes)]
  /\ stack' = SetTop(c, [Top(c) EXCEPT !.pc = "line23"])
  /\ UNCHANGED <<graph, fvars, heap, call, completion, calls, quota, panel, page>>

\* lines 23-26: the test, and sub_edges.push(e)
SubEdgeTest(c) ==
  /\ Running(c, "subgraph", "line23")
  /\ LET f == Top(c)
         e == heap[heap[f.g].edges].elems[f.i]
     IN /\ heap' = IF /\ window.s_node # 0
                      /\ window.t_node # 0
                      /\ includes(f.edge_types, heap[e].type)
                   THEN push(heap, window.sub_edges, e)
                   ELSE heap
        /\ stack' = SetTop(c, [f EXCEPT !.pc = "line19", !.i = @ + 1])
  /\ UNCHANGED <<graph, fvars, window, call, completion, calls, quota, panel, page>>

\* line 29: return { "nodes": sub_nodes, "edges": sub_edges }
SubReturn(c) ==
  /\ Running(c, "subgraph", "line29")
  /\ heap' = Append(heap, [kind |-> "graph", nodes |-> window.sub_nodes,
                           edges |-> window.sub_edges])
  /\ completion' = [completion EXCEPT ![c] = Normal(Len(heap) + 1)]
  /\ stack' = Pop(c)
  /\ UNCHANGED <<graph, fvars, window, call, calls, quota, panel, page>>

TreeFrame(node, directory_data) ==
  [fn |-> "format_as_tree", pc |-> "line34", node |-> node,
   directory_data |-> directory_data, children |-> 0, i |-> 0]

\* an uncaught throw ends the context's call
Uncaught(c, kind) ==
  /\ stack' = [stack EXCEPT ![c] = <<>>]
  /\ completion' = [completion EXCEPT ![c] = Throw(kind)]

\* format_as_tree({id: r, type: "FolderNode"}, graph) is called
StartFormatAsTree(c) ==
  \E r \in Ids :
    /\ stack[c] = <<>>
    /\ calls[c] < quota[c]
    /\ calls' = [calls EXCEPT ![c] = @ + 1]
    /\ call' = [call EXCEPT ![c] = [fn |-> "format_as_tree", root |-> r]]
    /\ completion' = [completion EXCEPT ![c] = undefined]
    /\ heap' = Append(heap, NodeObject([id |-> r, type |-> "FolderNode"]))
    /\ stack' = [stack EXCEPT ![c] = <<TreeFrame(Len(heap) + 1, G)>>]
    /\ UNCHANGED <<graph, fvars, window, quota, panel, page>>

\* line 34: let children = []
TreeChildrenInit(c) ==
  /\ Running(c, "format_as_tree", "line34")
  /\ heap' = Append(heap, ArrayObject(<<>>))
  /\ stack' = SetTop(c, [Top(c) EXCEPT !.pc = "line35", !.children = Len(heap) + 1, !.i = 1])
  /\ UNCHANGED <<graph, fvars, window, call, completion, calls, quota, panel, page>>

\* lines 35-37: the next edge, its test (node.id of undefined throws) and
\* t_node = get_node(e.target, directory_data["nodes"]); or the end of the loop
TreeLoop(c) ==
  /\ Running(c, "format_as_tree", "line35")
  /\ LET f == Top(c)
         edges == heap[heap[f.directory_data].edges].elems
     IN IF f.i > Len(edges)
        THEN /\ stack' = SetTop(c, [f EXCEPT !.pc = "line42"])
             /\ UNCHANGED <<window, completion>>
        ELSE IF f.node = 0
        THEN /\ Uncaught(c, "TypeError")
             /\ window' = window
        ELSE LET e == heap[edges[f.i]]
             IN IF e.source = heap[f.node].id /\ e.target # heap[f.node].id
                THEN /\ window' = [window EXCEPT !.t_node =
                          get_node_ref(heap, e.target, heap[f.directory_data].nodes)]
                     /\ stack' = SetTop(c, [f EXCEPT !.pc = "line38"])
                     /\ completion' = completion
                ELSE /\ stack' = SetTop(c, [f EXCEPT !.i = @ + 1])
                     /\ UNCHANGED <<window, completion>>
  /\ UNCHANGED <<graph, fvars, heap, call, calls, quota, panel, page>>

\* line 38: the nested call format_as_tree(t_node, directory_data); a call
\* the stack cannot hold throws RangeError
TreeCall(c) ==
  /\ Running(c, "format_as_tree", "line38")
  /\ IF Len(stack[c]) + 1 > StackLimit
     THEN Uncaught(c, "RangeError")
     ELSE /\ stack' = [stack EXCEPT ![c] =
                         Append(@, TreeFrame(window.t_node, Top(c).directory_data))]
          /\ completion' = completion
  /\ UNCHANGED <<graph, fvars, heap, window, call, calls, quota, panel, page>>

\* line 42: return { "name": node.id, "children": children }, and at line 38
\* of the caller children.push of the returned tree
TreeReturn(c) ==
  /\ Running(c, "format_as_tree", "line42")
  /\ LET f == Top(c)
         t == Len(heap) + 1
         made == Append(heap, [kind |-> "tree", name |-> heap[f.node].id,
                               children |-> f.children])
     IN IF f.node = 0
        THEN /\ Uncaught(c, "TypeError")
             /\ heap' = heap
        ELSE IF Len(stack[c]) = 1
        THEN /\ heap' = made
             /\ stack' = Pop(c)
             /\ completion' = [completion EXCEPT ![c] = Normal(t)]
        ELSE LET caller == stack[c][Len(stack[c]) - 1]
             IN /\ heap' = push(made, caller.children, t)
                /\ stack' = [stack EXCEPT ![c] =
                     Append(SubSeq(@, 1, Len(@) - 2),
                            [caller EXCEPT !.pc = "line35", !.i = @ + 1])]
                /\ completion' = completion
  /\ UNCHANGED <<graph, fvars, window, call, calls, quota, panel, page>>

Step(c) ==
  \/ StartSubgraph(c)
  \/ SubNodesInit(c)
  \/ SubNodesLoop(c)
  \/ SubEdgesInit(c)
  \/ SubEdgeSource(c)
  \/ SubEdgeTarget(c)
  \/ SubEdgeTest(c)
  \/ SubReturn(c)
  \/ StartFormatAsTree(c)
  \/ TreeChildrenInit(c)
  \/ TreeLoop(c)
  \/ TreeCall(c)
  \/ TreeReturn(c)

NextRun == \E c \in Ctx : Step(c)

RunGraphs == Graphs(Ids, NodeTypes, {"DirectoryEdge"}, HeapMaxNodes, HeapMaxEdges)

InitRun(q) ==
  /\ graph \in RunGraphs
  /\ NoCall
  /\ heap = LoadGraph(graph)
  /\ window = [sub_nodes |-> 0, sub_edges |-> 0, s_node |-> 0, t_node |-> 0]
  /\ stack = [c \in Ctx |-> <<>>]
  /\ call = [c \in Ctx |-> undefined]
  /\ completion = [c \in Ctx |-> undefined]
  /\ calls = [c \in Ctx |-> 0]
  /\ quota = q
  /\ panel = InitialPanel
  /\ page = InitialPage

\* one call context that makes its calls one after the other
InitHeap == InitRun([c \in Ctx |-> IF c = 1 THEN MaxCalls ELSE 0])

\* two call contexts with one call each, their steps interleaved
InitConc == InitRun([c \in Ctx |-> 1])

SpecHeap == InitHeap /\ [][NextRun]_vars

SpecConc == InitConc /\ [][NextRun]_vars

\* the documents of the step-by-step tree walks: a folder and two files, and
\* any edges among them
WalkNodes ==
  <<[id |-> "A", type |-> "FolderNode"],
    [id |-> "B", type |-> "FileNode"],
    [id |-> "C", type |-> "FileNode"]>>

WalkGraphs ==
  [nodes : {WalkNodes},
   edges : SeqsUpTo(EdgeRecords(TreeIds, {"DirectoryEdge"}), WalkMaxEdges)]

\* one call context that calls format_as_tree once
InitWalk ==
  /\ graph \in WalkGraphs
  /\ NoCall
  /\ heap = LoadGraph(graph)
  /\ window = [sub_nodes |-> 0, sub_edges |-> 0, s_node |-> 0, t_node |-> 0]
  /\ stack = [c \in Ctx |-> <<>>]
  /\ call = [c \in Ctx |-> undefined]
  /\ completion = [c \in Ctx |-> undefined]
  /\ calls = [c \in Ctx |-> 0]
  /\ quota = [c \in Ctx |-> IF c = 1 THEN 1 ELSE 0]
  /\ panel = InitialPanel
  /\ page = InitialPage

WalkStep(c) ==
  \/ StartFormatAsTree(c)
  \/ TreeChildrenInit(c)
  \/ TreeLoop(c)
  \/ TreeCall(c)
  \/ TreeReturn(c)

NextWalk == \E c \in Ctx : WalkStep(c)

SpecWalk == InitWalk /\ [][NextWalk]_vars

\* ------------------------------------------------ the control panel's events
PanelUnchanged == UNCHANGED <<graph, fvars, hvars, page>>

\* the user picks an option of presets-dropdown
SelectPreset ==
  \E value \in PresetOptions :
    /\ panel' = preset_change(panel, value)
    /\ PanelUnchanged

\* a change event of presets-dropdown whose value is no catalog key
DispatchUnknownPreset ==
  \E value \in UnknownPresets :
    /\ panel' = preset_change(panel, value)
    /\ PanelUnchanged

\* the user picks an option of layouts-dropdown
SelectLayout ==
  \E value \in LayoutOptions :
    /\ panel' = [panel EXCEPT !.layout = value]
    /\ PanelUnchanged

\* the user flips show-degree-switch
ToggleShowDegree ==
  /\ panel' = [panel EXCEPT !.show_degree = ~@]
  /\ PanelUnchanged

\* the user selects or unselects an option of node-options (the handler at
\* lines 176-178 only logs the values); the container must be showing
ToggleNodeOption ==
  \E o \in NodeOptions :
    /\ ~panel.custom_hidden
    /\ LET now == IF o \in panel.node_options THEN panel.node_options \ {o}
                  ELSE panel.node_options \cup {o}
       IN /\ Cardinality(now) <= MaxSelected
          /\ panel' = [panel EXCEPT !.node_options = now]
    /\ PanelUnchanged

\* the same for edge-options (lines 194-197)
ToggleEdgeOption ==
  \E o \in EdgeOptions :
    /\ ~panel.custom_hidden
    /\ LET now == IF o \in panel.edge_options THEN panel.edge_options \ {o}
                  ELSE panel.edge_options \cup {o}
       IN /\ Cardinality(now) <= MaxSelected
          /\ panel' = [panel EXCEPT !.edge_options = now]
    /\ PanelUnchanged

NextPanel ==
  \/ SelectPreset
  \/ DispatchUnknownPreset
  \/ SelectLayout
  \/ ToggleShowDegree
  \/ ToggleNodeOption
  \/ ToggleEdgeOption

InitPanel ==
  /\ graph = [nodes |-> <<>>, edges |-> <<>>]
  /\ NoCall
  /\ NoRun
  /\ panel = InitialPanel
  /\ page = InitialPage

SpecPanel == InitPanel /\ [][NextPanel]_vars

\* ------------------------------------- the tree view of a filtered document
\* the node records of the documents loaded for the tree view: two folders
\* and a file between them
PipeNodeRecords ==
  {[id |-> "A", type |-> "FolderNode"],
   [id |-> "B", type |-> "FileNode"],
   [id |-> "C", type |-> "FolderNode"]}

\* documents whose edges may name an id that no node carries
PipeGraphs ==
  [nodes : SeqsUpTo(PipeNodeRecords, MaxNodes),
   edges : SeqsUpTo(EdgeRecords(TreeIds, {"DirectoryEdge"}), MaxEdges)]

InitPipe ==
  /\ graph \in PipeGraphs
  /\ NoCall
  /\ NoRun
  /\ panel = InitialPanel
  /\ page = InitialPage

\* directory_data = subgraph(graph, nt, et)
FilterForTree ==
  \E nt \in NodeTypeLists, et \in RunEdgeTypeLists :
    /\ filtered = undefined
    /\ node_types' = nt
    /\ edge_types' = et
    /\ filtered' = subgraph(graph, nt, et)
    /\ UNCHANGED <<graph, refiltered, root, tree, hvars, panel, page>>

\* data = format_as_tree({id: r, type: "FolderNode"}, directory_data)
FormatFilteredAsTree ==
  \E r \in TreeIds :
    /\ filtered # undefined
    /\ root = undefined
    /\ root' = [id |-> r, type |-> "FolderNode"]
    /\ tree' = format_as_tree(root', filtered, 1)
    /\ UNCHANGED <<graph, node_types, edge_types, filtered, refiltered, hvars, panel, page>>

NextPipe == FilterForTree \/ FormatFilteredAsTree

SpecPipe == InitPipe /\ [][NextPipe]_vars

\* ------------------------------------------------ the page and its renderer
PageIds == {"snorkel", "utils"}

PageGraphs == Graphs(PageIds, NodeTypes, {"DirectoryEdge"}, MaxNodes, MaxEdges)

\* the outcomes of the load: no error, or an error
LoadErrors == {null, LoadError}

InitPage ==
  /\ graph \in PageGraphs
  /\ NoCall
  /\ NoRun
  /\ panel = InitialPanel
  /\ page = InitialPage

\* d3.json has loaded the document, or failed to, and calls back
LoadCallback ==
  \E err \in LoadErrors :
    /\ page.call = undefined
    /\ page' = d3_json_callback(page, err, IF err = null THEN graph ELSE undefined)
    /\ UNCHANGED <<graph, fvars, hvars, panel>>

\* changeGraph(graph, nodes, edges) is called with the loaded document
ChangeGraph ==
  \E nodes \in NodeTypeLists, edges \in RunEdgeTypeLists :
    /\ IF page.call = undefined THEN TRUE ELSE page.call.fn # "changeGraph"
    /\ page' = changeGraph(page, graph, nodes, edges)
    /\ UNCHANGED <<graph, fvars, hvars, panel>>

NextPage == LoadCallback \/ ChangeGraph

SpecPage == InitPage /\ [][NextPage]_vars

\* ----------------------------------------------------------------- claims
\* the elements of seq at the positions S, in their order in seq
Restrict(seq, S) ==
  [k \in 1..Cardinality(S) |->
     seq[CHOOSE i \in S : Cardinality({j \in S : j < i}) = k - 1]]

Labels(list) == {list[i] : i \in DOMAIN list}

HasId(nodes, id) == \E k \in DOMAIN nodes : nodes[k].id = id

\* C1: every node of subgraph's result has its type in node_types; every
\* edge of the result has its type in edge_types and its source and its
\* target are ids of nodes of the result's own node list.
C1_SubgraphSound ==
  filtered # undefined =>
    /\ \A i \in DOMAIN filtered.nodes : filtered.nodes[i].type \in Labels(node_types)
    /\ \A j \in DOMAIN filtered.edges :
         /\ filtered.edges[j].type \in Labels(edge_types)
         /\ HasId(filtered.nodes, filtered.edges[j].source)
         /\ HasId(filtered.nodes, filtered.edges[j].target)

\* an edge of an allowed type was dropped because a node of the document
\* that it names was filtered out, while another edge was kept
C1_Witness ==
  /\ filtered # undefined
  /\ filtered.edges # <<>>
  /\ \E j \in DOMAIN graph.edges :
       /\ graph.edges[j].type \in Labels(edge_types)
       /\ HasId(graph.nodes, graph.edges[j].source)
       /\ HasId(graph.nodes, graph.edges[j].target)
       /\ ~HasId(filtered.nodes, graph.edges[j].target)

\* C2: the result's nodes are exactly the nodes of the document whose type
\* is in node_types, and its edges exactly the edges whose type is in
\* edge_types and whose source and target are ids of surviving nodes, both in
\* their original order; a self-loop that qualifies is kept.
C2_SubgraphExact ==
  filtered # undefined =>
    LET keptN == {i \in DOMAIN graph.nodes :
                    \E t \in DOMAIN node_types : node_types[t] = graph.nodes[i].type}
        survives(id) == \E i \in keptN : graph.nodes[i].id = id
        keptE == {j \in DOMAIN graph.edges :
                    /\ \E t \in DOMAIN edge_types : edge_types[t] = graph.edges[j].type
                    /\ survives(graph.edges[j].source)
                    /\ survives(graph.edges[j].target)}
    IN /\ filtered.nodes = Restrict(graph.nodes, keptN)
       /\ filtered.edges = Restrict(graph.edges, keptE)

\* two edges are kept in their order, the first a self-loop, and a node is dropped
C2_Witness ==
  /\ filtered # undefined
  /\ Len(filtered.edges) = 2
  /\ filtered.edges[1].source = filtered.edges[1].target
  /\ filtered.edges[2] # filtered.edges[1]
  /\ Len(filtered.nodes) < Len(graph.nodes)

\* C3: filtering the result again with the same type lists returns the same
\* node sequence and the same edge sequence.
C3_Idempotent ==
  refiltered # undefined =>
    /\ refiltered.nodes = filtered.nodes
    /\ refiltered.edges = filtered.edges

\* filtered twice, from a document with a duplicate node id and a dangling
\* edge, the first filter having dropped a node and kept an edge
C3_Witness ==
  /\ refiltered # undefined
  /\ \E i, k \in DOMAIN graph.nodes : i # k /\ graph.nodes[i].id = graph.nodes[k].id
  /\ \E j \in DOMAIN graph.edges : ~HasId(graph.nodes, graph.edges[j].target)
  /\ Len(filtered.nodes) < Len(graph.nodes)
  /\ filtered.edges # <<>>

\* C4: with type lists that hold every label of node_types and of
\* edge_types, the result holds every node id and every edge of the result
\* for node_types and edge_types.
C4_Monotone ==
  filtered # undefined =>
    \A nt \in NodeTypeLists, et \in EdgeTypeLists :
      (Labels(node_types) \subseteq Labels(nt) /\ Labels(edge_types) \subseteq Labels(et)) =>
        LET wider == subgraph(graph, nt, et)
        IN /\ \A i \in DOMAIN filtered.nodes : HasId(wider.nodes, filtered.nodes[i].id)
           /\ \A j \in DOMAIN filtered.edges :
                \E k \in DOMAIN wider.edges : wider.edges[k] = filtered.edges[j]

\* a result with a node and an edge, for lists that strictly wider lists
\* exist for, the widest of which yields more nodes and more edges
C4_Witness ==
  /\ filtered # undefined
  /\ filtered.nodes # <<>> /\ filtered.edges # <<>>
  /\ Len(node_types) = 1 /\ Len(edge_types) = 1
  /\ Len(filtered.nodes) < Len(graph.nodes)
  /\ Len(filtered.edges) < Len(graph.edges)
  /\ subgraph(graph, <<"FileNode", "FolderNode">>, <<"DirectoryEdge", "ImportEdge">>) = graph

\* the targets of the edges format_as_tree follows from the node with this id
Succ(g, id) ==
  {g.edges[j].target :
     j \in {k \in DOMAIN g.edges : g.edges[k].source = id /\ g.edges[k].target # id}}

RECURSIVE Closure(_, _)
Closure(g, S) ==
  LET N == S \cup UNION {Succ(g, x) : x \in S}
  IN IF N = S THEN S ELSE Closure(g, N)

\* the ids reachable from id by one or more outgoing non-self-loop edges
Reach(g, id) == Closure(g, Succ(g, id))

EdgeIds(g) ==
  {g.edges[j].source : j \in DOMAIN g.edges} \cup {g.edges[j].target : j \in DOMAIN g.edges}

\* no cycle of two or more edges
NoLongCycle(g) == \A x \in EdgeIds(g) : x \notin Reach(g, x)

NoSelfLoop(g) == \A j \in DOMAIN g.edges : g.edges[j].source # g.edges[j].target

Resolvable(g) == \A j \in DOMAIN g.edges : HasId(g.nodes, g.edges[j].target)

\* a cycle of two or more edges lies on a walk from id
CycleReachable(g, id) == \E x \in Reach(g, id) \cup {id} : x \in Reach(g, x)

\* a walk from id meets an edge whose target is no node's id
DanglingReachable(g, id) ==
  \E x \in Reach(g, id) \cup {id} : \E y \in Succ(g, x) : ~HasId(g.nodes, y)

RECURSIVE Names(_)
RECURSIVE NamesFrom(_, _)
\* the names of a tree in preorder, the tree's own name first
Names(t) == <<t.name>> \o NamesFrom(t.children, 1)
NamesFrom(children, i) ==
  IF i > Len(children) THEN <<>>
  ELSE Names(children[i]) \o NamesFrom(children, i + 1)

DescendantNames(t) == Tail(Names(t))

Count(seq, x) == Cardinality({i \in DOMAIN seq : seq[i] = x})

RECURSIVE PathsFrom(_, _, _, _)
\* the number of walks from id `from` to id `to`, counted over the edges
\* from index j on at their first step (finite when NoLongCycle)
PathsFrom(g, from, to, j) ==
  IF j > Len(g.edges) THEN 0
  ELSE LET e == g.edges[j]
       IN (IF e.source = from /\ e.target # from
           THEN (IF e.target = to THEN 1 ELSE 0) + PathsFrom(g, e.target, to, 1)
           ELSE 0) + PathsFrom(g, from, to, j + 1)

\* C6 as claimed: on an acyclic graph with resolvable edge targets the tree
\* has the root's id as its name and the multiset of its descendant names is
\* the set of ids reachable from the root (each reachable id once).
C6_DescendantsAreReachableSet ==
  (/\ tree # undefined
   /\ NoSelfLoop(graph) /\ NoLongCycle(graph) /\ Resolvable(graph)
   /\ HasId(graph.nodes, root.id)
   /\ \A j \in DOMAIN graph.edges : HasId(graph.nodes, graph.edges[j].source)) =>
    /\ tree.type = "normal"
    /\ tree.value.name = root.id
    /\ \A x \in TreeIds :
         Count(DescendantNames(tree.value), x) = (IF x \in Reach(graph, root.id) THEN 1 ELSE 0)

\* C6 as amended: on a graph with resolvable edge targets and no cycle of two
\* or more edges the tree has the root's id as its name, the set of its
\* descendant names is the set of ids reachable from the root by outgoing
\* non-self-loop edges, each id appearing once per walk that leads to it, and
\* a root with no such edge has no children.
C6_DescendantsPerWalk ==
  (tree # undefined /\ NoLongCycle(graph) /\ Resolvable(graph)) =>
    /\ tree.type = "normal"
    /\ tree.value.name = root.id
    /\ Labels(DescendantNames(tree.value)) = Reach(graph, root.id)
    /\ \A x \in TreeIds :
         Count(DescendantNames(tree.value), x) = PathsFrom(graph, root.id, x, 1)
    /\ (Succ(graph, root.id) = {} => tree.value.children = <<>>)

\* a tree two levels deep was returned, from a graph that holds the root as
\* one of its nodes
C6_Witness ==
  /\ tree # undefined /\ NoLongCycle(graph) /\ Resolvable(graph)
  /\ tree.type = "normal"
  /\ \E i \in DOMAIN tree.value.children : tree.value.children[i].children # <<>>
  /\ HasId(graph.nodes, root.id)

\* C7: when a cycle of two or more edges is reachable from the root,
\* format_as_tree ends by throwing CyclicGraphError.
C7_CyclicGraphError ==
  (tree # undefined /\ CycleReachable(graph, root.id) /\ Resolvable(graph)) =>
    (tree.type = "throw" /\ tree.value = "CyclicGraphError")

\* what the code does there: the recursion ends only when the call stack is
\* exhausted
CodeOnCycle ==
  (tree # undefined /\ CycleReachable(graph, root.id) /\ Resolvable(graph)) =>
    tree = Throw("RangeError")

\* C8: when the walk meets an edge whose target is no node's id,
\* format_as_tree ends by throwing DanglingEdgeError.
C8_DanglingEdgeError ==
  (tree # undefined /\ DanglingReachable(graph, root.id) /\ NoLongCycle(graph)) =>
    (tree.type = "throw" /\ tree.value = "DanglingEdgeError")

\* what the code does there: the nested call reads the id of undefined
CodeOnDangling ==
  (tree # undefined /\ DanglingReachable(graph, root.id) /\ NoLongCycle(graph)) =>
    tree = Throw("TypeError")

\* the graph document at address a, by value
GraphValue(h, a) ==
  LET ns == h[h[a].nodes].elems
      es == h[h[a].edges].elems
  IN [nodes |-> [i \in DOMAIN ns |-> [id |-> h[ns[i]].id, type |-> h[ns[i]].type]],
      edges |-> [j \in DOMAIN es |-> [source |-> h[es[j]].source,
                                       target |-> h[es[j]].target,
                                       type |-> h[es[j]].type]]]

RECURSIVE TreeValue(_, _)
\* the tree at address a, by value
TreeValue(h, a) ==
  LET cs == h[h[a].children].elems
  IN [name |-> h[a].name, children |-> [i \in DOMAIN cs |-> TreeValue(h, cs[i])]]

RECURSIVE TreeAddresses(_, _)
\* the addresses of the objects the tree at address a is made of
TreeAddresses(h, a) ==
  {a, h[a].children}
    \cup UNION {TreeAddresses(h, h[h[a].children].elems[i]) : i \in DOMAIN h[h[a].children].elems}

\* what context c's finished call returned or threw, by value
Returned(c) ==
  IF completion[c].type = "throw" THEN completion[c]
  ELSE IF call[c].fn = "subgraph" THEN Normal(GraphValue(heap, completion[c].value))
  ELSE Normal(TreeValue(heap, completion[c].value))

\* what the same call returns or throws when nothing else runs
Alone(c) ==
  IF call[c].fn = "subgraph"
  THEN Normal(subgraph(graph, call[c].node_types, call[c].edge_types))
  ELSE format_as_tree([id |-> call[c].root, type |-> "FolderNode"], graph, 1)

\* C5: after any sequence of subgraph and format_as_tree calls on the loaded
\* graph, the graph's node array, edge array and records are as loaded, every
\* call - a repeated one too - has returned what the call returns on that
\* graph, and a returned tree is made of objects allocated by the call that
\* hold node ids, none of them an object of the graph.
C5_InputNotMutated ==
  /\ SubSeq(heap, 1, Len(LoadGraph(graph))) = LoadGraph(graph)
  /\ \A c \in Ctx :
       completion[c] # undefined =>
         /\ Returned(c) = Alone(c)
         /\ (call[c].fn = "format_as_tree" /\ completion[c].type = "normal") =>
              \A a \in TreeAddresses(heap, completion[c].value) :
                /\ a > Len(LoadGraph(graph))
                /\ heap[a].kind \in {"tree", "array"}
                /\ heap[a].kind = "tree" => heap[a].name \in Ids

\* the second call in a row returned a tree with a child, after a subgraph
\* call that pushed a node of the graph and skipped another
C5_Witness ==
  /\ calls[1] = 2
  /\ completion[1] # undefined
  /\ completion[1].type = "normal"
  /\ call[1].fn = "format_as_tree"
  /\ heap[heap[completion[1].value].children].elems # <<>>
  /\ window.sub_nodes # 0
  /\ heap[window.sub_nodes].elems # <<>>
  /\ Len(heap[window.sub_nodes].elems) < Len(graph.nodes)

\* C10: when the steps of two invocations interleave, each invocation
\* returns exactly the result it returns when run alone.
C10_InterleavedAsAlone ==
  \A c \in Ctx : completion[c] # undefined => Returned(c) = Alone(c)

PanelControls(p) == <<p.layout, p.show_degree, p.description>>

\* C9: the handler run for a name that is no catalog key fails with
\* UnknownPresetError and leaves the layout selection, the show-degree
\* switch and the description text as they were.
C9_UnknownPresetError ==
  [][DispatchUnknownPreset =>
       /\ panel'.completion = Throw("UnknownPresetError")
       /\ PanelControls(panel') = PanelControls(panel)]_vars

\* what the code does there: the lookup itself does not fail, the
\* destructuring of its undefined result does, after the custom options have
\* been hidden
CodeOnUnknownPreset ==
  [][DispatchUnknownPreset =>
       /\ panel'.completion = Throw("TypeError")
       /\ panel'.custom_hidden
       /\ PanelControls(panel') = PanelControls(panel)]_vars

\* C11: format_as_tree run on subgraph's result, whatever the document (one
\* with dangling edges too), the type lists and the root: no walk from the
\* root meets an edge of the result whose target is no node of the result,
\* so no get_node lookup of the walk returns undefined and the walk never
\* ends with the TypeError of reading the id of undefined.
C11_FilteredWalkResolves ==
  tree # undefined =>
    /\ ~DanglingReachable(filtered, root.id)
    /\ tree # Throw("TypeError")

\* the walk on the unfiltered document would have met a dangling edge; on the
\* filtered one it returned a tree with a child
C11_Witness ==
  /\ tree # undefined
  /\ DanglingReachable(graph, root.id)
  /\ tree.type = "normal"
  /\ tree.value.children # <<>>

RECURSIVE Subtrees(_)
\* a tree and the trees below it
Subtrees(t) == {t} \cup UNION {Subtrees(t.children[i]) : i \in DOMAIN t.children}

SelfLoops(g) == {j \in DOMAIN g.edges : g.edges[j].source = g.edges[j].target}

\* C12: format_as_tree follows no self-loop.  On a filtered document whose
\* only cycles are self-loops the walk ends with a tree; in it every node has
\* exactly one child per outgoing edge of its id that is no self-loop, and no
\* node has a child of its own name; the self-loops of the loaded document
\* that pass subgraph's test are all edges of the filtered document.
C12_SelfLoopNotFollowed ==
  (tree # undefined /\ NoLongCycle(filtered)) =>
    /\ tree.type = "normal"
    /\ \A s \in Subtrees(tree.value) :
         /\ Len(s.children) =
              Cardinality({j \in DOMAIN filtered.edges :
                             /\ filtered.edges[j].source = s.name
                             /\ filtered.edges[j].target # s.name})
         /\ \A i \in DOMAIN s.children : s.children[i].name # s.name
    /\ \A j \in SelfLoops(graph) :
         (HasId(filtered.nodes, graph.edges[j].source)
            /\ graph.edges[j].type \in Labels(edge_types)) =>
           \E k \in SelfLoops(filtered) : filtered.edges[k] = graph.edges[j]

\* the filtered document kept a self-loop on a node the walk visited below
\* the root, and the walk returned
C12_Witness ==
  /\ tree # undefined /\ NoLongCycle(filtered)
  /\ tree.type = "normal"
  /\ \E i \in DOMAIN tree.value.children :
       \E k \in SelfLoops(filtered) :
         filtered.edges[k].source = tree.value.children[i].name

\* the indices of the edges format_as_tree follows from the node named id
Followed(g, id) ==
  {j \in DOMAIN g.edges : g.edges[j].source = id /\ g.edges[j].target # id}

\* the document of the scenario: A with the files B and C
ScenarioGraph ==
  [nodes |-> WalkNodes,
   edges |-> <<[source |-> "A", target |-> "B", type |-> "DirectoryEdge"],
               [source |-> "A", target |-> "C", type |-> "DirectoryEdge"]>>]

Leaf(name) == [name |-> name, children |-> <<>>]

\* C13: in the tree a format_as_tree call returned, at every level the
\* children's names are the targets of the followed edges of that node, in
\* the order of graph.edges and one child per edge (parallel edges repeat
\* the child), whatever the nested calls left in t_node; the scenario
\* document walked from A gives {A, [{B, []}, {C, []}]}.
C13_ChildrenInEdgeOrder ==
  (completion[1] # undefined /\ completion[1].type = "normal") =>
    LET t == TreeValue(heap, completion[1].value)
    IN /\ t.name = call[1].root
       /\ \A s \in Subtrees(t) :
            [i \in DOMAIN s.children |-> s.children[i].name]
              = [k \in 1..Cardinality(Followed(graph, s.name)) |->
                   Restrict(graph.edges, Followed(graph, s.name))[k].target]
       /\ (graph = ScenarioGraph /\ call[1].root = "A") =>
            t = [name |-> "A", children |-> <<Leaf("B"), Leaf("C")>>]

\* a returned tree whose root has two children by parallel edges, each with
\* a child of its own: the nested call for the first grandchild left its
\* node in t_node before the second parallel edge was reached
C13_Witness ==
  /\ completion[1] # undefined /\ completion[1].type = "normal"
  /\ LET t == TreeValue(heap, completion[1].value)
     IN /\ Len(t.children) = 2
        /\ t.children[1].children # <<>>
        /\ t.children[2].name = t.children[1].name
        /\ t.children[2].children # <<>>
        /\ t.children[1].children[1].name # t.children[2].name

\* the tree the two calls give when made one after the other
SeparateCalls(nodes, edges) ==
  format_as_tree(SnorkelRoot, subgraph(graph, nodes, edges), 1)

\* C14: changeGraph(graph, nodes, edges) filters the document, passes the
\* filtered document and the root snorkel to format_as_tree and redefines
\* the renderer's "data" to the tree: whenever the two calls made separately
\* return a tree, changeGraph completes without error and "data" is that tree.
C14_ChangeGraphPipeline ==
  (page.call # undefined /\ page.call.fn = "changeGraph") =>
    LET t == SeparateCalls(page.call.nodes, page.call.edges)
    IN t.type = "normal" =>
         /\ page.completion = Normal(undefined)
         /\ page.data = t.value

\* what the code does there: format_as_tree is called with one argument and
\* throws on directory_data["edges"]; "data" is not redefined
CodeOnChangeGraph ==
  [][ChangeGraph =>
       /\ page'.completion = Throw("TypeError")
       /\ page'.data = page.data]_vars

\* the callback of the page load does run the pipeline
CallbackPipeline ==
  (page.call # undefined /\ page.call.fn = "d3.json callback" /\ page.call.err = null) =>
    LET t == SeparateCalls(<<"FileNode", "FolderNode">>, <<"DirectoryEdge">>)
    IN IF t.type = "normal"
       THEN page.completion = Normal(undefined) /\ page.data = t.value
       ELSE page.completion = t /\ page.data = undefined

NodeOptionList ==
  <<"FileNode", "FolderNode", "ClassNode", "FuncNode", "VarNode", "LambdaNode",
    "IfNode", "ForNode", "WhileNode", "TryNode">>

EdgeOptionList ==
  <<"DirectoryEdge", "ImportEdge", "FunctionCallEdge", "InheritanceEdge",
    "DefinitionEdge", "VariableEdge", "ControlFlowEdge">>

\* a document with one node of every kind the controls offer, named after
\* its kind, and an edge of every kind from every node to every node
KindsGraph ==
  LET n == Len(NodeOptionList)
      m == Len(EdgeOptionList)
  IN [nodes |-> [i \in 1..n |-> [id |-> NodeOptionList[i], type |-> NodeOptionList[i]]],
      edges |-> [j \in 1..(n * n * m) |->
                   [source |-> NodeOptionList[((j - 1) \div (n * m)) + 1],
                    target |-> NodeOptionList[(((j - 1) \div m) % n) + 1],
                    type |-> EdgeOptionList[((j - 1) % m) + 1]]]]

\* the preset showing in presets-dropdown is a catalog entry other than custom
PresetShowing ==
  panel.preset \in DOMAIN PRESETS /\ panel.preset # "custom"

\* C15: the type labels of the selected non-custom preset are labels of the
\* custom-filter controls - its node types are options of node-options and
\* its edge types options of edge-options - and filtering a document that
\* has nodes and edges of every such kind with the preset returns a
\* non-empty node list and a non-empty edge list.
C15_PresetLabelsAreOptions ==
  PresetShowing =>
    /\ Labels(PRESETS[panel.preset][1]) \subseteq NodeOptions
    /\ Labels(PRESETS[panel.preset][2]) \subseteq EdgeOptions
    /\ LET sub == subgraph(KindsGraph, PRESETS[panel.preset][1], PRESETS[panel.preset][2])
       IN sub.nodes # <<>> /\ sub.edges # <<>>

\* what the code's catalog holds: only "file directory" and "import
\* dependency" name option labels throughout; every other non-custom preset
\* has an edge label that is no option
CodeOnPresetLabels ==
  PresetShowing =>
    IF panel.preset \in {"file directory", "import dependency"}
    THEN /\ Labels(PRESETS[panel.preset][1]) \subseteq NodeOptions
         /\ Labels(PRESETS[panel.preset][2]) \subseteq EdgeOptions
    ELSE Labels(PRESETS[panel.preset][2]) \cap EdgeOptions = {}

\* the panel shows the preset named in presets-dropdown
ReflectsPreset(p) ==
  /\ p.layout = PRESETS[p.preset][3]
  /\ p.layout \in LayoutOptions
  /\ p.show_degree = PRESETS[p.preset][4]
  /\ p.description = PRESETS[p.preset][5]
  /\ p.custom_hidden = (p.preset # "custom")

\* C16: after every selection in presets-dropdown the panel reflects the
\* selected preset: layouts-dropdown shows the preset's layout hint, which is
\* one of its options, show-degree-switch is the preset's flag, the
\* description card holds the preset's description, and the custom options
\* are visible exactly when the preset is custom.
C16_PanelReflectsPreset ==
  [][SelectPreset => ReflectsPreset(panel')]_vars

\* what the code does there: the switch, the card and the custom options
\* follow the preset; layouts-dropdown follows it only for the hints "tree"
\* and "force directed", and for "circle", "concentric" and "cose" it is
\* left with no option selected
CodeOnPresetSelection ==
  [][SelectPreset =>
       /\ panel'.show_degree = PRESETS[panel'.preset][4]
       /\ panel'.description = PRESETS[panel'.preset][5]
       /\ panel'.custom_hidden = (panel'.preset # "custom")
       /\ panel'.completion = Normal(undefined)
       /\ IF panel'.preset \in {"file directory", "class inheritance"}
          THEN panel'.layout = PRESETS[panel'.preset][3]
          ELSE panel'.layout = "" /\ PRESETS[panel'.preset][3] \notin LayoutOptions]_vars

====
